---- MODULE Spec2Model ----
(***************************************************************************)
(* Model of the Carta Porte verifier: utils.py (parse_float,               *)
(* format_and_compare_liters, map_clave_to_combustible), xml_processor.py  *)
(* (identify_format, extract_common_data, the three process_xml_format*    *)
(* extractors, process_file_based_on_format) and pdf_handler.py            *)
(* (identify_pdf, process_uploaded_files).                                 *)
(*                                                                         *)
(* Conventions.  A Python str is a sequence of one-character strings, so   *)
(* that parsing and formatting are computed and not looked up.  A value    *)
(* that may be None is a sequence of length at most one: None is << >> and *)
(* a present value v is <<v>>.  A float is a record: kind "fin", "inf" or  *)
(* "nan", a sign, and a magnitude hi * 10^-5 + lo * 10^-10 held in two     *)
(* limbs (TLC integers are 32 bits wide).  Decimal arithmetic is exact; the*)
(* inputs are kept away from pairs whose binary rounding would decide the  *)
(* 1e-9 comparison otherwise.                                              *)
(***************************************************************************)
EXTENDS Integers, Sequences, FiniteSets, Bags, TLC

VARIABLES
    facturada_str,      \* utils: first argument of format_and_compare_liters
    transportada_str,   \* utils: second argument
    num_ret,            \* utils: the function last called, its argument and result
    doc,                \* xml_processor: the file at file_path
    doc_ret,            \* xml_processor: the function last called and its result
    uploaded_files,     \* pdf_handler: the argument of process_uploaded_files
    temp_dir,           \* pdf_handler: the files under ./temp_files
    pdf_files,          \* pdf_handler: the dict from PDF file name to path
    all_xml_files,      \* pdf_handler: the sorted list of XML paths
    all_data,           \* pdf_handler: the records collected so far
    idx,                \* pdf_handler: position of the loop in all_xml_files
    pc,                 \* pdf_handler: "idle", "loop" or "done"
    df_result,          \* pdf_handler: the rows of the DataFrame returned
    fecha_col,          \* history: the FechaEmision column as it was dropped
    log,                \* history: the documents handed to the dispatcher
    left_dir,           \* history: ./temp_files as the call found it
    calls               \* history: the calls of process_uploaded_files begun

num_vars == <<facturada_str, transportada_str, num_ret>>
doc_vars == <<doc, doc_ret>>
batch_vars ==
    <<uploaded_files, temp_dir, pdf_files, all_xml_files, all_data, idx, pc,
      df_result, fecha_col, log, left_dir, calls>>
vars == <<num_vars, doc_vars, batch_vars>>

None == << >>
Some(v) == <<v>>
IsNone(o) == o = << >>
Val(o) == o[1]

Limb == 10^5

-----------------------------------------------------------------------------
(* Characters and strings *)

Digits == {"0", "1", "2", "3", "4", "5", "6", "7", "8", "9"}

DigitVal(c) ==
    CASE c = "0" -> 0 [] c = "1" -> 1 [] c = "2" -> 2 [] c = "3" -> 3
      [] c = "4" -> 4 [] c = "5" -> 5 [] c = "6" -> 6 [] c = "7" -> 7
      [] c = "8" -> 8 [] c = "9" -> 9

DigitChar(d) ==
    CASE d = 0 -> "0" [] d = 1 -> "1" [] d = 2 -> "2" [] d = 3 -> "3"
      [] d = 4 -> "4" [] d = 5 -> "5" [] d = 6 -> "6" [] d = 7 -> "7"
      [] d = 8 -> "8" [] d = 9 -> "9"

\* str.lower() on one character (the letters the model's alphabet holds)
LowerChar(c) ==
    CASE c = "A" -> "a" [] c = "F" -> "f" [] c = "I" -> "i" [] c = "N" -> "n"
      [] c = "X" -> "x" [] c = "M" -> "m" [] c = "L" -> "l" [] c = "P" -> "p"
      [] c = "D" -> "d" [] c = "Z" -> "z" [] c = "T" -> "t" [] c = "Y" -> "y"
      [] OTHER -> c

Lower(s) == [i \in 1..Len(s) |-> LowerChar(s[i])]

EndsWith(s, suffix) ==
    /\ Len(s) >= Len(suffix)
    /\ SubSeq(s, Len(s) - Len(suffix) + 1, Len(s)) = suffix

RECURSIVE LStrip(_)
LStrip(s) == IF s # << >> /\ Head(s) = " " THEN LStrip(Tail(s)) ELSE s

RECURSIVE RStrip(_)
RStrip(s) ==
    IF s # << >> /\ s[Len(s)] = " " THEN RStrip(SubSeq(s, 1, Len(s) - 1)) ELSE s

Strip(s) == LStrip(RStrip(s))

\* str(n) for a natural number
RECURSIVE IntToStr(_)
IntToStr(n) ==
    IF n < 10 THEN <<DigitChar(n)>>
    ELSE Append(IntToStr(n \div 10), DigitChar(n % 10))

-----------------------------------------------------------------------------
(* Floats *)

Fin(neg, hi, lo) == [kind |-> "fin", neg |-> neg, hi |-> hi, lo |-> lo]
Inf(neg) == [kind |-> "inf", neg |-> neg, hi |-> 0, lo |-> 0]
NaN == [kind |-> "nan", neg |-> FALSE, hi |-> 0, lo |-> 0]
Zero == Fin(FALSE, 0, 0)

AllDigits(s) == \A i \in 1..Len(s) : s[i] \in Digits

RECURSIVE DigitsValue(_)
DigitsValue(s) ==
    IF s = << >> THEN 0
    ELSE 10 * DigitsValue(SubSeq(s, 1, Len(s) - 1)) + DigitVal(s[Len(s)])

\* the fraction digits f as the two limbs: digits 1..5 and digits 6..10
PadRight(s, n) == [i \in 1..n |-> IF i <= Len(s) THEN s[i] ELSE "0"]
FracHi(f) == DigitsValue(SubSeq(PadRight(f, 10), 1, 5))
FracLo(f) == DigitsValue(SubSeq(PadRight(f, 10), 6, 10))

DotAt(s) ==
    IF \E i \in 1..Len(s) : s[i] = "."
    THEN CHOOSE i \in 1..Len(s) : s[i] = "." /\ \A j \in 1..(i - 1) : s[j] # "."
    ELSE 0

\* float(text): the text is stripped; then an optional sign and either
\* nan, inf, infinity (any case) or digits with at most one point and at
\* least one digit.  << >> is the ValueError.
FloatOfStr(text) ==
    LET s == Strip(text)
        signed == s # << >> /\ Head(s) \in {"+", "-"}
        neg == s # << >> /\ Head(s) = "-"
        body == IF signed THEN Tail(s) ELSE s
        low == Lower(body)
        dot == DotAt(body)
        ip == IF dot = 0 THEN body ELSE SubSeq(body, 1, dot - 1)
        fp == IF dot = 0 THEN << >> ELSE SubSeq(body, dot + 1, Len(body))
    IN  IF low = <<"n", "a", "n">> THEN Some(NaN)
        ELSE IF low = <<"i", "n", "f">>
                \/ low = <<"i", "n", "f", "i", "n", "i", "t", "y">>
        THEN Some(Inf(neg))
        ELSE IF AllDigits(ip) /\ AllDigits(fp) /\ Len(ip) + Len(fp) >= 1
        THEN Some(Fin(neg, DigitsValue(ip) * Limb + FracHi(fp), FracLo(fp)))
        ELSE None

\* mutant: a failed conversion is reported as nan instead of 0.0
parse_float_nan(value) ==
    IF IsNone(value) THEN NaN
    ELSE IF IsNone(FloatOfStr(Val(value))) THEN NaN
    ELSE Val(FloatOfStr(Val(value)))

\* parse_float: float(value), and 0.0 on TypeError (None) or ValueError
parse_float(value) ==
    IF IsNone(value) THEN Zero
    ELSE IF IsNone(FloatOfStr(Val(value))) THEN Zero
    ELSE Val(FloatOfStr(Val(value)))

\* f"{v:.3f}": round to the nearest thousandth, ties to even
Format3(v) ==
    IF v.kind = "nan" THEN <<"n", "a", "n">>
    ELSE IF v.kind = "inf"
    THEN (IF v.neg THEN <<"-">> ELSE << >>) \o <<"i", "n", "f">>
    ELSE LET down == v.hi \div 100
             rest == (v.hi % 100) * Limb + v.lo
             half == 50 * Limb
             up == rest > half \/ (rest = half /\ down % 2 = 1)
             milli == IF up THEN down + 1 ELSE down
             f == milli % 1000
         IN  (IF v.neg THEN <<"-">> ELSE << >>)
             \o IntToStr(milli \div 1000) \o <<".">>
             \o <<DigitChar(f \div 100), DigitChar((f \div 10) % 10), DigitChar(f % 10)>>

\* abs(a - b) < 1e-9 on floats: false as soon as a nan or an infinity is
\* involved (inf - inf is nan)
SignedHi(v) == IF v.neg THEN 0 - v.hi ELSE v.hi
SignedLo(v) == IF v.neg THEN 0 - v.lo ELSE v.lo
Abs(n) == IF n < 0 THEN 0 - n ELSE n

AbsDiffBelowTolerance(a, b) ==
    /\ a.kind = "fin"
    /\ b.kind = "fin"
    /\ LET dh == SignedHi(a) - SignedHi(b)
           dl == SignedLo(a) - SignedLo(b)
       IN  /\ Abs(dh) <= 1
           /\ Abs(dh * Limb + dl) < 10

\* mutant: the comparison is made on the formatted strings
format_and_compare_liters_on_strings(f_str, t_str) ==
    LET f == parse_float(f_str)
        t == parse_float(t_str)
    IN  [fac |-> Format3(f), trans |-> Format3(t),
         comp |-> IF Format3(f) = Format3(t) THEN "Iguales" ELSE "Diferentes"]

format_and_compare_liters(f_str, t_str) ==
    LET facturada_val == parse_float(f_str)
        transportada_val == parse_float(t_str)
    IN  [fac |-> Format3(facturada_val), trans |-> Format3(transportada_val),
         comp |-> IF AbsDiffBelowTolerance(facturada_val, transportada_val)
                  THEN "Iguales" ELSE "Diferentes"]

\* mutant: an unknown code falls back to a default label
map_clave_to_combustible_default(clave_prod_serv) ==
    IF clave_prod_serv = <<"1", "5", "1", "0", "1", "5", "1", "5">> THEN Some("premium")
    ELSE IF clave_prod_serv = <<"1", "5", "1", "0", "1", "5", "0", "5">> THEN Some("diesel")
    ELSE Some("magna")

\* mapping.get(clave_prod_serv): None for a key the table does not hold
map_clave_to_combustible(clave_prod_serv) ==
    IF clave_prod_serv = <<"1", "5", "1", "0", "1", "5", "1", "4">> THEN Some("magna")
    ELSE IF clave_prod_serv = <<"1", "5", "1", "0", "1", "5", "1", "5">> THEN Some("premium")
    ELSE IF clave_prod_serv = <<"1", "5", "1", "0", "1", "5", "0", "5">> THEN Some("diesel")
    ELSE None

-----------------------------------------------------------------------------
(* XML documents *)

\* A parsed document: the root element (tag and header attributes), the
\* cfdi:Concepto elements below the root in document order, and the
\* Mercancia elements of the three Carta Porte namespaces below the root in
\* document order, each with its CantidadTransporta descendants.  A path
\* './/tag' selects descendants of the element it is applied to, never the
\* element itself, so the root is held apart.  wf = FALSE is a file
\* ET.parse rejects.
NS_CFDI == "http://www.sat.gob.mx/cfd/4"
NS20 == "http://www.sat.gob.mx/CartaPorte20"
NS30 == "http://www.sat.gob.mx/CartaPorte30"
NS31 == "http://www.sat.gob.mx/CartaPorte31"

Tag(ns, name) == [ns |-> ns, name |-> name]

FindAll(elems, ns) == SelectSeq(elems, LAMBDA e : e.ns = ns)

\* element.find(path): the first match in document order, or None
Find(elems, ns) ==
    IF FindAll(elems, ns) = << >> THEN None ELSE Some(Head(FindAll(elems, ns)))

\* datetime.fromisoformat: None stands for the ValueError
DaysIn(y, m) ==
    IF m \in {4, 6, 9, 11} THEN 30
    ELSE IF m = 2
    THEN (IF y % 4 = 0 /\ (y % 100 # 0 \/ y % 400 = 0) THEN 29 ELSE 28)
    ELSE 31

FromIsoFormat(f) ==
    IF /\ f.form = "date"
       /\ f.y \in 1..9999
       /\ f.m \in 1..12
       /\ f.d \in 1..DaysIn(f.y, f.m)
    THEN Some([y |-> f.y, m |-> f.m, d |-> f.d])
    ELSE None

FechaText(form, y, m, d) == [form |-> form, y |-> y, m |-> m, d |-> d]
EmptyFecha == FechaText("empty", 0, 0, 0)

\* attrib.get(name, '')
GetOrEmpty(attr, empty) == IF IsNone(attr) THEN empty ELSE Val(attr)

\* mutant: the period is read off the text even when the date is rejected
extract_common_data_period_of_text(root) ==
    LET fecha_str == GetOrEmpty(root.Fecha, EmptyFecha)
        fecha_dt == FromIsoFormat(fecha_str)
    IN  [FechaEmision |-> fecha_dt,
         Periodo |-> IF fecha_str.form = "date" THEN IntToStr(fecha_str.m) ELSE << >>,
         Serie |-> GetOrEmpty(root.Serie, ""),
         Folio |-> GetOrEmpty(root.Folio, ""),
         Clave_SAT |-> None,
         Cantidad_Litros_Facturada |-> None,
         Litros_Transportada |-> None,
         Combustible |-> None,
         Comparacion |-> ""]

extract_common_data(root) ==
    LET fecha_str == GetOrEmpty(root.Fecha, EmptyFecha)
        fecha_dt == FromIsoFormat(fecha_str)
        periodo == IF IsNone(fecha_dt) THEN << >> ELSE IntToStr(Val(fecha_dt).m)
    IN  [FechaEmision |-> fecha_dt,
         Periodo |-> periodo,
         Serie |-> GetOrEmpty(root.Serie, ""),
         Folio |-> GetOrEmpty(root.Folio, ""),
         Clave_SAT |-> None,
         Cantidad_Litros_Facturada |-> None,
         Litros_Transportada |-> None,
         Combustible |-> None,
         Comparacion |-> ""]

\* What a call returns: it raised (ET.ParseError), or it returned fmt (the
\* classifier) or data (an extractor, the dispatcher); None is << >>.
Raised == [raised |-> TRUE, fmt |-> None, data |-> None]
Returned(fmt, data) == [raised |-> FALSE, fmt |-> fmt, data |-> data]

\* mutant: the CartaPorte30 test is made before the CartaPorte20 test
identify_format_v2_first(d) ==
    IF ~d.wf THEN Raised
    ELSE IF FindAll(d.mercs, NS30) # << >> THEN Returned(Some("format2"), None)
    ELSE IF FindAll(d.mercs, NS20) # << >> THEN Returned(Some("format1"), None)
    ELSE IF FindAll(d.mercs, NS31) # << >> THEN Returned(Some("format31"), None)
    ELSE Returned(None, None)

\* identify_format: ET.parse, then the first namespace whose Mercancia is
\* found below the root
identify_format(d) ==
    IF ~d.wf THEN Raised
    ELSE IF FindAll(d.mercs, NS20) # << >> THEN Returned(Some("format1"), None)
    ELSE IF FindAll(d.mercs, NS30) # << >> THEN Returned(Some("format2"), None)
    ELSE IF FindAll(d.mercs, NS31) # << >> THEN Returned(Some("format31"), None)
    ELSE Returned(None, None)

\* the billed quantity: data[...] is set only when a Concepto is found
Facturada(d, data) ==
    IF d.conceptos = << >> THEN data
    ELSE [data EXCEPT !.Cantidad_Litros_Facturada =
              Some(GetOrEmpty(Head(d.conceptos).Cantidad, << >>))]

\* x or '0': None and '' are falsy
OrZero(x) == IF IsNone(x) \/ x = Some(<< >>) THEN Some(<<"0">>) ELSE x

\* mutant: the result of the normalisation is not stored
Normalize_not_stored(data, fac_raw, trans_raw) == data

\* the shared tail of the three extractors
Normalize(data, fac_raw, trans_raw) ==
    LET r == format_and_compare_liters(fac_raw, trans_raw)
    IN  [data EXCEPT !.Cantidad_Litros_Facturada = Some(r.fac),
                     !.Litros_Transportada = Some(r.trans),
                     !.Comparacion = r.comp]

\* mutant: the Mercancia is looked for in the CartaPorte30 namespace
process_xml_format1_other_namespace(d) ==
    IF ~d.wf THEN Raised
    ELSE
    LET data0 == Facturada(d, extract_common_data(d.root))
        mercancia == Find(d.mercs, NS30)
        data1 ==
            IF IsNone(mercancia) THEN data0
            ELSE LET clave_prod_serv == GetOrEmpty(Val(mercancia).BienesTransp, << >>)
                 IN  [data0 EXCEPT
                        !.Clave_SAT = Some(clave_prod_serv),
                        !.Litros_Transportada =
                            Some(GetOrEmpty(Val(mercancia).Cantidad, << >>)),
                        !.Combustible = map_clave_to_combustible(clave_prod_serv)]
    IN  Returned(None, Some(Normalize(data1, OrZero(data1.Cantidad_Litros_Facturada),
                                      OrZero(data1.Litros_Transportada))))

process_xml_format1(d) ==
    IF ~d.wf THEN Raised
    ELSE
    LET data0 == Facturada(d, extract_common_data(d.root))
        mercancia == Find(d.mercs, NS20)
        data1 ==
            IF IsNone(mercancia) THEN data0
            ELSE LET clave_prod_serv == GetOrEmpty(Val(mercancia).BienesTransp, << >>)
                 IN  [data0 EXCEPT
                        !.Clave_SAT = Some(clave_prod_serv),
                        !.Litros_Transportada =
                            Some(GetOrEmpty(Val(mercancia).Cantidad, << >>)),
                        !.Combustible = map_clave_to_combustible(clave_prod_serv)]
    IN  Returned(None, Some(Normalize(data1, OrZero(data1.Cantidad_Litros_Facturada),
                                      OrZero(data1.Litros_Transportada))))

\* mutant: the own attribute is taken whenever the Mercancia has it
TransportedNested_own_first(mercancia, ns) ==
    LET cantidad_transporta == Find(mercancia.kids, ns)
    IN  IF IsNone(mercancia.Cantidad) /\ ~IsNone(cantidad_transporta)
        THEN Some(GetOrEmpty(Val(cantidad_transporta).Cantidad, << >>))
        ELSE Some(GetOrEmpty(mercancia.Cantidad, << >>))

\* the transported quantity of format2 and format31: the first nested
\* CantidadTransporta of the namespace, else the Mercancia's own attribute
TransportedNested(mercancia, ns) ==
    LET cantidad_transporta == Find(mercancia.kids, ns)
    IN  IF ~IsNone(cantidad_transporta)
        THEN Some(GetOrEmpty(Val(cantidad_transporta).Cantidad, << >>))
        ELSE Some(GetOrEmpty(mercancia.Cantidad, << >>))

\* format2 and format31 differ in the namespace only; data.get(key, '0')
\* returns the stored value, None included, because the key is always set
ProcessNested(d, ns) ==
    IF ~d.wf THEN Raised
    ELSE
    LET data0 == Facturada(d, extract_common_data(d.root))
        mercancia == Find(d.mercs, ns)
        data1 ==
            IF IsNone(mercancia) THEN data0
            ELSE LET clave_prod_serv == GetOrEmpty(Val(mercancia).BienesTransp, << >>)
                 IN  [data0 EXCEPT
                        !.Clave_SAT = Some(clave_prod_serv),
                        !.Litros_Transportada = TransportedNested(Val(mercancia), ns),
                        !.Combustible = map_clave_to_combustible(clave_prod_serv)]
    IN  Returned(None, Some(Normalize(data1, data1.Cantidad_Litros_Facturada,
                                      data1.Litros_Transportada)))

process_xml_format2(d) == ProcessNested(d, NS30)

process_xml_format31(d) == ProcessNested(d, NS31)

\* mutant: 'format2' is handed to the CartaPorte31 extractor
process_file_based_on_format_swapped(d) ==
    LET format_type == identify_format(d)
    IN  IF format_type.raised THEN Raised
        ELSE IF format_type.fmt = Some("format1") THEN process_xml_format1(d)
        ELSE IF format_type.fmt = Some("format2") THEN process_xml_format31(d)
        ELSE IF format_type.fmt = Some("format31") THEN process_xml_format31(d)
        ELSE Returned(None, None)

process_file_based_on_format(d) ==
    LET format_type == identify_format(d)
    IN  IF format_type.raised THEN Raised
        ELSE IF format_type.fmt = Some("format1") THEN process_xml_format1(d)
        ELSE IF format_type.fmt = Some("format2") THEN process_xml_format2(d)
        ELSE IF format_type.fmt = Some("format31") THEN process_xml_format31(d)
        ELSE Returned(None, None)

-----------------------------------------------------------------------------
(* pdf_handler *)

\* ord(c) for the characters of file names
Ord(c) ==
    CASE c = "." -> 46 [] c = "/" -> 47
      [] c = "B" -> 66 [] c = "D" -> 68 [] c = "F" -> 70 [] c = "L" -> 76
      [] c = "M" -> 77 [] c = "P" -> 80 [] c = "U" -> 85 [] c = "X" -> 88
      [] c = "Y" -> 89 [] c = "Z" -> 90
      [] c = "a" -> 97 [] c = "b" -> 98 [] c = "d" -> 100 [] c = "f" -> 102
      [] c = "i" -> 105 [] c = "l" -> 108 [] c = "m" -> 109 [] c = "p" -> 112
      [] c = "s" -> 115 [] c = "u" -> 117 [] c = "x" -> 120 [] c = "y" -> 121
      [] c = "z" -> 122

\* a < b on str
RECURSIVE StrLess(_, _)
StrLess(a, b) ==
    IF b = << >> THEN FALSE
    ELSE IF a = << >> THEN TRUE
    ELSE IF Head(a) # Head(b) THEN Ord(Head(a)) < Ord(Head(b))
    ELSE StrLess(Tail(a), Tail(b))

DotPdf == <<".", "p", "d", "f">>
DotXml == <<".", "x", "m", "l">>
DotZip == <<".", "z", "i", "p">>
NoEncontrado == <<"N", "o", " ", "e", "n", "c", "o", "n", "t", "r", "a", "d", "o">>

\* os.path.splitext(name)[0]: the name up to its last dot, the whole name
\* when it has no dot or only leading dots before the last one
SplitextStem(name) ==
    LET dots == {i \in DOMAIN name : name[i] = "."}
        last == CHOOSE i \in dots : \A j \in dots : j <= i
    IN  IF dots = {} THEN name
        ELSE IF \A j \in 1..(last - 1) : name[j] = "." THEN name
        ELSE SubSeq(name, 1, last - 1)

\* a path under ./temp_files: the directory below it ('' for the top) and the
\* file name; os.path.join of the two
Path(dir, name) == [dir |-> dir, name |-> name]
PathStr(path) ==
    IF path.dir = << >> THEN path.name ELSE path.dir \o <<"/">> \o path.name

\* pdf_files as a set of [name, path] entries, one per key
Keys(dict) == {e.name : e \in dict}
Put(dict, name, path) ==
    {e \in dict : e.name # name} \cup {[name |-> name, path |-> path]}

\* mutant: the key is looked up without regard to case
identify_pdf_ignoring_case(xml_filename, pdfs) ==
    LET base_name == SplitextStem(xml_filename)
        pdf_name == base_name \o DotPdf
    IN  IF \E k \in Keys(pdfs) : Lower(k) = Lower(pdf_name)
        THEN CHOOSE k \in Keys(pdfs) : Lower(k) = Lower(pdf_name)
        ELSE NoEncontrado

identify_pdf(xml_filename, pdfs) ==
    LET base_name == SplitextStem(xml_filename)
        pdf_name == base_name \o DotPdf
    IN  IF pdf_name \in Keys(pdfs) THEN pdf_name ELSE NoEncontrado

\* mutant: the directory is kept as it was found
RemoveTree_kept(fs) == fs

\* shutil.rmtree(temp_dir) and os.makedirs(temp_dir): an empty directory
RemoveTree(fs) == {}

\* the directory as a set of [path, doc] files; writing replaces the file at
\* the path.  doc is what ET.parse makes of the file.
WriteFile(fs, path, d) ==
    {f \in fs : f.path # path} \cup {[path |-> path, doc |-> d]}

RECURSIVE ExtractAll(_, _)
ExtractAll(members, fs) ==
    IF members = << >> THEN fs
    ELSE ExtractAll(Tail(members), WriteFile(fs, Head(members).path, Head(members).doc))

\* the first loop: every uploaded file is written, a PDF is entered in the
\* dict under the name it was uploaded with, a ZIP is extracted
RECURSIVE SaveUploaded(_, _, _)
SaveUploaded(files, fs, pdfs) ==
    IF files = << >> THEN [fs |-> fs, pdfs |-> pdfs]
    ELSE LET f == Head(files)
             file_path == Path(<< >>, f.name)
             fs1 == WriteFile(fs, file_path, f.doc)
         IN  IF EndsWith(Lower(f.name), DotPdf)
             THEN SaveUploaded(Tail(files), fs1, Put(pdfs, f.name, file_path))
             ELSE IF EndsWith(Lower(f.name), DotZip)
             THEN SaveUploaded(Tail(files), ExtractAll(f.members, fs1), pdfs)
             ELSE SaveUploaded(Tail(files), fs1, pdfs)

RECURSIVE SetToSeq(_)
SetToSeq(S) ==
    IF S = {} THEN << >>
    ELSE LET x == CHOOSE y \in S : TRUE IN <<x>> \o SetToSeq(S \ {x})

\* os.walk: the top directory first, then the directories below it.  Within a
\* directory the order is os.listdir's; the names there are distinct keys, so
\* no result depends on it, and the order of the names is taken.
WalkOrder(fs) ==
    LET paths == {f.path : f \in fs}
        before(a, b) ==
            \/ a.dir = << >> /\ b.dir # << >>
            \/ a.dir # << >> /\ b.dir # << >> /\ StrLess(a.dir, b.dir)
            \/ a.dir = b.dir /\ StrLess(a.name, b.name)
    IN  SortSeq(SetToSeq(paths), before)

\* mutant: the PDFs found by the walk are not entered
DetectPdfs_skipped(walk, pdfs) == pdfs

\* the second loop: every PDF found by the walk is entered under its file name
RECURSIVE DetectPdfs(_, _)
DetectPdfs(walk, pdfs) ==
    IF walk = << >> THEN pdfs
    ELSE IF EndsWith(Lower(Head(walk).name), DotPdf)
    THEN DetectPdfs(Tail(walk), Put(pdfs, Head(walk).name, Head(walk)))
    ELSE DetectPdfs(Tail(walk), pdfs)

\* the third loop and sorted(): the XML paths in the order of their strings
CollectXml(fs) ==
    SortSeq(SelectSeq(WalkOrder(fs), LAMBDA q : EndsWith(Lower(q.name), DotXml)),
            LAMBDA a, b : StrLess(PathStr(a), PathStr(b)))

FileAt(fs, path) == CHOOSE f \in fs : f.path = path

\* data['XML_File'] and data['PDF Asociado'] added to the record
WithFile(data, xml_filename, pdfs) ==
    [FechaEmision |-> data.FechaEmision,
     Periodo |-> data.Periodo,
     Serie |-> data.Serie,
     Folio |-> data.Folio,
     Clave_SAT |-> data.Clave_SAT,
     Cantidad_Litros_Facturada |-> data.Cantidad_Litros_Facturada,
     Litros_Transportada |-> data.Litros_Transportada,
     Combustible |-> data.Combustible,
     Comparacion |-> data.Comparacion,
     XML_File |-> xml_filename,
     PDF_Asociado |-> identify_pdf(xml_filename, pdfs)]

\* mutant: an exception ends the loop
NextIndex_abort(ret, i, total) == IF ret.raised THEN total + 1 ELSE i + 1

\* the loop goes on to the next document whatever the dispatcher did: the
\* except clause swallows what it raised
NextIndex(ret, i, total) == i + 1

\* the body of the try: the record is kept when the dispatcher returned one
\* (a dict with keys is truthy)
Collected(ret, xml_path, pdfs, data_list) ==
    IF ret.raised \/ IsNone(ret.data) THEN data_list
    ELSE Append(data_list, WithFile(Val(ret.data), xml_path.name, pdfs))

\* a row of the DataFrame returned: the two quantities as float, FechaEmision
\* dropped
Row(rec) ==
    [Periodo |-> rec.Periodo,
     Serie |-> rec.Serie,
     Folio |-> rec.Folio,
     Clave_SAT |-> rec.Clave_SAT,
     Cantidad_Litros_Facturada |-> parse_float(rec.Cantidad_Litros_Facturada),
     Litros_Transportada |-> parse_float(rec.Litros_Transportada),
     Combustible |-> rec.Combustible,
     Comparacion |-> rec.Comparacion,
     XML_File |-> rec.XML_File,
     PDF_Asociado |-> rec.PDF_Asociado]

DateLess(a, b) ==
    \/ a.y < b.y
    \/ a.y = b.y /\ a.m < b.m
    \/ a.y = b.y /\ a.m = b.m /\ a.d < b.d

RowOrders(n) ==
    {q \in [1..n -> 1..n] : \A i, j \in 1..n : i # j => q[i] # q[j]}

\* mutant: the rows without a date come first
SortedOrders_na_first(data_list) ==
    {q \in RowOrders(Len(data_list)) :
        \A i, j \in 1..Len(data_list) : i < j =>
            LET a == data_list[q[i]].FechaEmision
                b == data_list[q[j]].FechaEmision
            IN  /\ ~(IsNone(b) /\ ~IsNone(a))
                /\ (~IsNone(a) /\ ~IsNone(b)) => ~DateLess(Val(b), Val(a))}

\* sort_values(by="FechaEmision", na_position='last'): the orders of the rows
\* it may produce.  The sort is not stable, so rows with equal dates, and rows
\* without a date, come in any order.
SortedOrders(data_list) ==
    {q \in RowOrders(Len(data_list)) :
        \A i, j \in 1..Len(data_list) : i < j =>
            LET a == data_list[q[i]].FechaEmision
                b == data_list[q[j]].FechaEmision
            IN  /\ ~(IsNone(a) /\ ~IsNone(b))
                /\ (~IsNone(a) /\ ~IsNone(b)) => ~DateLess(Val(b), Val(a))}

-----------------------------------------------------------------------------
(* The inputs of the xml_processor functions *)

MaxMercs == 2        \* Mercancia elements below the root
MaxConceptos == 1    \* cfdi:Concepto elements below the root

\* the sequences over S of length at most n
RECURSIVE SeqsUpTo(_, _)
SeqsUpTo(S, n) ==
    IF n = 0 THEN {<< >>}
    ELSE LET shorter == SeqsUpTo(S, n - 1)
         IN  shorter \cup {Append(q, x) : q \in shorter, x \in S}

Q50 == <<"5", "0">>
Q75 == <<"7", "5">>
Magna == <<"1", "5", "1", "0", "1", "5", "1", "4">>
Premium == <<"1", "5", "1", "0", "1", "5", "1", "5">>
Diesel == <<"1", "5", "1", "0", "1", "5", "0", "5">>
Unknown == <<"9", "9", "9", "9", "9", "9", "9", "9">>

Concepto(cantidad) == [Cantidad |-> cantidad]
CantidadTransporta(ns, cantidad) == [ns |-> ns, Cantidad |-> cantidad]
Mercancia(ns, bienes, cantidad, kids) ==
    [ns |-> ns, BienesTransp |-> bienes, Cantidad |-> cantidad, kids |-> kids]

\* Cantidad of a Concepto: missing, empty, no number, a number, and nan
ConceptoElements ==
    {Concepto(None), Concepto(Some(<< >>)), Concepto(Some(<<"x">>)),
     Concepto(Some(Q50)), Concepto(Some(<<"n", "a", "n">>))}

OtherNS(ns) == IF ns = NS31 THEN NS30 ELSE NS31

FuelCodeOf(ns) == IF ns = NS20 THEN Magna ELSE IF ns = NS30 THEN Premium ELSE Diesel

\* Mercancia elements of each namespace: BienesTransp known, unknown and
\* missing; Cantidad a number, no number and missing; no nested element, a
\* nested CantidadTransporta of the same namespace with and without its
\* Cantidad, and one of another namespace
MercanciaElements ==
    UNION {
        {Mercancia(ns, Some(FuelCodeOf(ns)), Some(Q50), << >>),
         Mercancia(ns, Some(Unknown), Some(Q50), <<CantidadTransporta(ns, Some(Q75))>>),
         Mercancia(ns, None, Some(<<"x">>),
                   <<CantidadTransporta(OtherNS(ns), Some(Q75))>>),
         Mercancia(ns, Some(FuelCodeOf(ns)), None, <<CantidadTransporta(ns, None)>>)}
        : ns \in {NS20, NS30, NS31}}

Fecha(y, m, d) == FechaText("date", y, m, d)

Root(tag, fecha, serie, folio) ==
    [tag |-> tag, Fecha |-> fecha, Serie |-> serie, Folio |-> folio]

Comprobante == Tag(NS_CFDI, "Comprobante")

CfdiRoot == Root(Comprobante, Some(Fecha(2023, 5, 1)), Some("A"), Some("1"))

\* the root of a file that is a bare Carta Porte fragment
FragmentRoot == Root(Tag(NS20, "Mercancia"), None, None, None)

Malformed ==
    [wf |-> FALSE, root |-> Root(Comprobante, None, None, None),
     conceptos |-> << >>, mercs |-> << >>]

\* the Fecha attribute: missing, empty, a text that is no date, dates of every
\* month, and texts in the form of a date that name no day of the calendar
FechaAttributes ==
    {None, Some(EmptyFecha), Some(FechaText("junk", 0, 0, 0))}
    \cup {Some(Fecha(2023, m, d)) : m \in 1..12, d \in {1, 31}}
    \cup {Some(Fecha(y, 2, 29)) : y \in {2023, 2024, 2100, 2000}}
    \cup {Some(Fecha(2023, 13, 1)), Some(Fecha(2023, 0, 1)), Some(Fecha(2023, 5, 0)),
          Some(Fecha(0, 5, 1))}

RootElements ==
    {Root(Comprobante, f, serie, folio) :
        f \in FechaAttributes, serie \in {None, Some(""), Some("A")},
        folio \in {None, Some("1")}}

\* a file ET.parse rejects, invoices, Carta Porte fragments, and documents of
\* every root element with nothing below it
Documents ==
    {Malformed}
    \cup {[wf |-> TRUE, root |-> r, conceptos |-> << >>, mercs |-> << >>] :
            r \in RootElements}
    \cup {[wf |-> TRUE, root |-> CfdiRoot, conceptos |-> c, mercs |-> m] :
            c \in SeqsUpTo(ConceptoElements, MaxConceptos),
            m \in SeqsUpTo(MercanciaElements, MaxMercs)}
    \cup {[wf |-> TRUE, root |-> FragmentRoot, conceptos |-> << >>, mercs |-> m] :
            m \in SeqsUpTo(MercanciaElements, MaxMercs)}

NumResult(op, arg, val, fmt, label) ==
    [op |-> op, arg |-> arg, val |-> val, fmt |-> fmt, label |-> label]

NoFmt == [fac |-> << >>, trans |-> << >>, comp |-> ""]

NumNoCall == NumResult("none", None, Zero, NoFmt, None)

NoCall == [op |-> "none", ret |-> Returned(None, None)]

\* the state of pdf_handler when no call of it is modelled
BatchIdle ==
    /\ uploaded_files = << >>
    /\ temp_dir = {}
    /\ pdf_files = {}
    /\ all_xml_files = << >>
    /\ all_data = << >>
    /\ idx = 1
    /\ pc = "idle"
    /\ df_result = << >>
    /\ fecha_col = << >>
    /\ log = << >>
    /\ left_dir = {}
    /\ calls = 0

\* doc_ret is the call made into xml_processor and num_ret the call made into
\* utils.  The functions are pure: a behaviour is one call on the inputs Init
\* chose.
NoCallYet == doc_ret = NoCall /\ num_ret = NumNoCall

InitDoc ==
    /\ doc \in Documents
    /\ doc_ret = NoCall
    /\ facturada_str = None
    /\ transportada_str = None
    /\ num_ret = NumNoCall
    /\ BatchIdle

CallIdentifyFormat ==
    /\ NoCallYet
    /\ doc_ret' = [op |-> "identify_format", ret |-> identify_format(doc)]
    /\ UNCHANGED doc

CallProcessXmlFormat1 ==
    /\ NoCallYet
    /\ doc_ret' = [op |-> "process_xml_format1", ret |-> process_xml_format1(doc)]
    /\ UNCHANGED doc

CallProcessXmlFormat2 ==
    /\ NoCallYet
    /\ doc_ret' = [op |-> "process_xml_format2", ret |-> process_xml_format2(doc)]
    /\ UNCHANGED doc

CallProcessXmlFormat31 ==
    /\ NoCallYet
    /\ doc_ret' = [op |-> "process_xml_format31", ret |-> process_xml_format31(doc)]
    /\ UNCHANGED doc

\* extract_common_data takes the root element of a parsed document
CallExtractCommonData ==
    /\ NoCallYet
    /\ doc.wf
    /\ doc_ret' = [op |-> "extract_common_data",
                   ret |-> Returned(None, Some(extract_common_data(doc.root)))]
    /\ UNCHANGED doc

CallProcessFileBasedOnFormat ==
    /\ NoCallYet
    /\ doc_ret' = [op |-> "process_file_based_on_format",
                   ret |-> process_file_based_on_format(doc)]
    /\ UNCHANGED doc

\* the Cantidad attributes of a document as the extractors read them (None:
\* the attribute or its element is missing), and its BienesTransp values
CantidadesOf(d) ==
    {None}
    \cup {d.conceptos[i].Cantidad : i \in DOMAIN d.conceptos}
    \cup {d.mercs[i].Cantidad : i \in DOMAIN d.mercs}
    \cup UNION {{d.mercs[i].kids[j].Cantidad : j \in DOMAIN d.mercs[i].kids}
                : i \in DOMAIN d.mercs}

ClavesOf(d) == {GetOrEmpty(d.mercs[i].BienesTransp, << >>) : i \in DOMAIN d.mercs}

-----------------------------------------------------------------------------
(* The inputs of the utils functions *)

MaxRawLen == 2       \* length of the generated raw strings

RawAlphabet == {"1", ".", "-", " ", "x"}

\* quantities as they are written in attributes, and texts float() rejects
\* or reads as nan and infinity
RawCurated ==
    {<<"1", "0">>,
     <<"1", "0", ".", "0", "0", "0">>,
     <<"1", "0", ".", "0", "0", "0", "1">>,
     <<"1", "0", ".", "0", "0", "0", "2">>,
     <<"1", "0", ".", "0", "0", "0", "0", "0", "0", "0", "0", "0", "9">>,
     <<"1", "0", ".", "0", "0", "0", "0", "0", "0", "0", "0", "1">>,
     <<"1", "0", ".", "0", "1">>,
     <<"1", "0", "0">>,
     <<" ", "1", "0", " ">>,
     <<"+", "1", "0">>,
     <<"-", "0", ".", "0", "0", "0", "1">>,
     <<"0", ".", "0", "6", "2", "5">>,
     <<"9", "9", "9", ".", "9", "9", "9", "6">>,
     <<"a", "b", "c">>,
     <<"1", "0", ",", "5">>,
     <<"n", "a", "n">>,
     <<"I", "n", "f">>,
     <<"-", "i", "n", "f", "i", "n", "i", "t", "y">>}

RawStrings == RawCurated \cup SeqsUpTo(RawAlphabet, MaxRawLen)

RawValues == {None} \cup {Some(s) : s \in RawStrings}

Claves ==
    {Magna, Premium, Diesel, Unknown, << >>,
     <<"1", "5", "1", "0", "1", "5", "1">>,
     <<"1", "5", "1", "0", "1", "5", "1", "4", " ">>,
     <<"m", "a", "g", "n", "a">>}

InitNum ==
    /\ facturada_str \in RawValues
    /\ transportada_str \in RawValues
    /\ num_ret = NumNoCall
    /\ doc = Malformed
    /\ doc_ret = NoCall
    /\ BatchIdle

CallParseFloat(value) ==
    /\ NoCallYet
    /\ num_ret' = NumResult("parse_float", value, parse_float(value), NoFmt, None)
    /\ UNCHANGED <<facturada_str, transportada_str>>

CallFormatAndCompareLiters ==
    /\ NoCallYet
    /\ num_ret' = NumResult("format_and_compare_liters", None, Zero,
                            format_and_compare_liters(facturada_str, transportada_str),
                            None)
    /\ UNCHANGED <<facturada_str, transportada_str>>

CallMapClaveToCombustible(clave) ==
    /\ NoCallYet
    /\ num_ret' = NumResult("map_clave_to_combustible", Some(clave), Zero, NoFmt,
                            map_clave_to_combustible(clave))
    /\ UNCHANGED <<facturada_str, transportada_str>>

-----------------------------------------------------------------------------
(* The inputs of process_uploaded_files *)

MaxFiles == 3        \* files uploaded in the first call
MaxCalls == 2        \* calls of process_uploaded_files in one session

Invoice(fecha, mercs) ==
    [wf |-> TRUE, root |-> Root(Comprobante, fecha, Some("A"), Some("1")),
     conceptos |-> <<Concepto(Some(Q50))>>, mercs |-> mercs]

DocMay == Invoice(Some(Fecha(2023, 5, 1)), <<Mercancia(NS20, Some(Magna), Some(Q50), << >>)>>)
DocJan ==
    Invoice(Some(Fecha(2023, 1, 1)),
            <<Mercancia(NS30, Some(Premium), Some(Q50),
                        <<CantidadTransporta(NS30, Some(Q75))>>)>>)
DocNoDate ==
    Invoice(Some(FechaText("junk", 0, 0, 0)),
            <<Mercancia(NS31, Some(Unknown), Some(<<"n", "a", "n">>), << >>)>>)
DocUnrecognized == Invoice(Some(Fecha(2023, 3, 1)), << >>)

Sub == <<"s", "u", "b">>

Upload(name, d, members) == [name |-> name, doc |-> d, members |-> members]
Member(dir, name, d) == [path |-> Path(dir, name), doc |-> d]

\* what a user may upload: documents of the three variants, with and without
\* a date, a file that is no XML, an unrecognised document, a document whose
\* name is only the extension, PDFs whose names differ in case, and an
\* archive with a document and its PDF in a directory
UploadChoices ==
    {Upload(<<"X", ".", "x", "m", "l">>, DocMay, << >>),
     Upload(<<"Y", ".", "x", "m", "l">>, DocJan, << >>),
     Upload(<<"Z", ".", "x", "m", "l">>, DocNoDate, << >>),
     Upload(<<"B", ".", "x", "m", "l">>, Malformed, << >>),
     Upload(<<"U", ".", "x", "m", "l">>, DocUnrecognized, << >>),
     Upload(<<".", "x", "m", "l">>, DocJan, << >>),
     Upload(<<"X", ".", "p", "d", "f">>, Malformed, << >>),
     Upload(<<"X", ".", "P", "D", "F">>, Malformed, << >>),
     Upload(<<".", "p", "d", "f">>, Malformed, << >>),
     Upload(<<"a", ".", "z", "i", "p">>, Malformed,
            <<Member(Sub, <<"X", ".", "x", "m", "l">>, DocMay),
              Member(Sub, <<"X", ".", "p", "d", "f">>, Malformed)>>)}

\* ./temp_files as an earlier call may have left it
LeftoverDirs ==
    {{},
     {[path |-> Path(<< >>, <<"Z", ".", "p", "d", "f">>), doc |-> Malformed],
      [path |-> Path(<< >>, <<"Z", ".", "x", "m", "l">>), doc |-> DocMay]}}

InitBatch ==
    /\ uploaded_files \in SeqsUpTo(UploadChoices, MaxFiles)
    /\ temp_dir \in LeftoverDirs
    /\ pdf_files = {}
    /\ all_xml_files = << >>
    /\ all_data = << >>
    /\ idx = 1
    /\ pc = "idle"
    /\ df_result = << >>
    /\ fecha_col = << >>
    /\ log = << >>
    /\ left_dir = {}
    /\ calls = 0
    /\ facturada_str = None
    /\ transportada_str = None
    /\ num_ret = NumNoCall
    /\ doc = Malformed
    /\ doc_ret = NoCall

\* process_uploaded_files up to the loop over the documents: the directory is
\* removed and made again, the files are saved, the PDFs and the XML files
\* are collected
ProcessUploadedFilesBegin ==
    /\ pc = "idle"
    /\ \E saved \in {SaveUploaded(uploaded_files, RemoveTree(temp_dir), {})} :
           /\ temp_dir' = saved.fs
           /\ pdf_files' = DetectPdfs(WalkOrder(saved.fs), saved.pdfs)
           /\ all_xml_files' = CollectXml(saved.fs)
    /\ all_data' = << >>
    /\ idx' = 1
    /\ pc' = "loop"
    /\ log' = << >>
    /\ left_dir' = temp_dir
    /\ calls' = calls + 1
    /\ UNCHANGED <<uploaded_files, df_result, fecha_col>>

\* one turn of the loop over all_xml_files
ProcessOneXml ==
    /\ pc = "loop"
    /\ idx <= Len(all_xml_files)
    /\ \E xml_path \in {all_xml_files[idx]} :
       \E ret \in {process_file_based_on_format(FileAt(temp_dir, xml_path).doc)} :
           /\ all_data' = Collected(ret, xml_path, pdf_files, all_data)
           /\ idx' = NextIndex(ret, idx, Len(all_xml_files))
           /\ log' = Append(log, [path |-> xml_path,
                                  outcome |-> IF ret.raised THEN "error"
                                              ELSE IF IsNone(ret.data) THEN "skipped"
                                              ELSE "record"])
    /\ UNCHANGED <<uploaded_files, temp_dir, pdf_files, all_xml_files, pc,
                   df_result, fecha_col, left_dir, calls>>

\* after the loop: the DataFrame, sorted by FechaEmision and without that
\* column when it has rows
ProcessUploadedFilesReturn ==
    /\ pc = "loop"
    /\ idx > Len(all_xml_files)
    /\ IF all_data = << >>
       THEN df_result' = << >> /\ fecha_col' = << >>
       ELSE \E q \in SortedOrders(all_data) :
                /\ df_result' = [i \in 1..Len(all_data) |-> Row(all_data[q[i]])]
                /\ fecha_col' = [i \in 1..Len(all_data) |-> all_data[q[i]].FechaEmision]
    /\ pc' = "done"
    /\ UNCHANGED <<uploaded_files, temp_dir, pdf_files, all_xml_files, all_data,
                   idx, log, left_dir, calls>>

\* the files of a later call
LaterUploads == {<<u>> : u \in UploadChoices}

\* main: the button is pressed again with other files.  The call before has
\* returned and its locals are gone; ./temp_files stays as it left it.
ProcessAgain ==
    /\ pc = "done"
    /\ calls < MaxCalls
    /\ uploaded_files' \in LaterUploads
    /\ pc' = "idle"
    /\ pdf_files' = {}
    /\ all_xml_files' = << >>
    /\ all_data' = << >>
    /\ idx' = 1
    /\ df_result' = << >>
    /\ fecha_col' = << >>
    /\ log' = << >>
    /\ UNCHANGED <<temp_dir, left_dir, calls>>

-----------------------------------------------------------------------------
(* Specifications *)

\* the utils functions on raw strings
NextNum ==
    \/ CallParseFloat(facturada_str) /\ UNCHANGED <<doc_vars, batch_vars>>
    \/ CallFormatAndCompareLiters /\ UNCHANGED <<doc_vars, batch_vars>>
    \/ \E clave \in Claves : CallMapClaveToCombustible(clave) /\ UNCHANGED <<doc_vars, batch_vars>>

SpecNum == InitNum /\ [][NextNum]_vars

\* the xml_processor functions on a document
NextDoc ==
    \/ CallIdentifyFormat /\ UNCHANGED <<num_vars, batch_vars>>
    \/ CallProcessXmlFormat1 /\ UNCHANGED <<num_vars, batch_vars>>
    \/ CallProcessXmlFormat2 /\ UNCHANGED <<num_vars, batch_vars>>
    \/ CallProcessXmlFormat31 /\ UNCHANGED <<num_vars, batch_vars>>
    \/ CallProcessFileBasedOnFormat /\ UNCHANGED <<num_vars, batch_vars>>
    \/ CallExtractCommonData /\ UNCHANGED <<num_vars, batch_vars>>

SpecDoc == InitDoc /\ [][NextDoc]_vars

\* one call of process_uploaded_files
NextBatch ==
    \/ ProcessUploadedFilesBegin /\ UNCHANGED <<num_vars, doc_vars>>
    \/ ProcessOneXml /\ UNCHANGED <<num_vars, doc_vars>>
    \/ ProcessUploadedFilesReturn /\ UNCHANGED <<num_vars, doc_vars>>
    \/ ProcessAgain /\ UNCHANGED <<num_vars, doc_vars>>

SpecBatch == InitBatch /\ [][NextBatch]_vars

-----------------------------------------------------------------------------
(* Properties of xml_processor and utils *)

Extractors == {"process_xml_format1", "process_xml_format2", "process_xml_format31"}

NSOf(op) ==
    CASE op = "process_xml_format1" -> NS20
      [] op = "process_xml_format2" -> NS30
      [] op = "process_xml_format31" -> NS31

ZeroFmt == <<"0", ".", "0", "0", "0">>

\* a Mercancia of the namespace below the root, and one anywhere in the
\* document, the root included
BelowRoot(d, ns) == \E i \in DOMAIN d.mercs : d.mercs[i].ns = ns
Contains(d, ns) == d.root.tag = Tag(ns, "Mercancia") \/ BelowRoot(d, ns)

FirstMatch(has(_)) ==
    IF has(NS20) THEN Some("format1")
    ELSE IF has(NS30) THEN Some("format2")
    ELSE IF has(NS31) THEN Some("format31")
    ELSE None

\* the first element of the namespace in document order
FirstOf(elems, ns) ==
    elems[CHOOSE i \in DOMAIN elems :
              elems[i].ns = ns /\ \A j \in 1..(i - 1) : elems[j].ns # ns]

HasNested(m, ns) == \E j \in DOMAIN m.kids : m.kids[j].ns = ns

\* C1 as stated: identify_format returns the first variant, in the order V1,
\* V2, V3, of which the document contains a Mercancia element anywhere, and
\* None when it contains none.
C1_FirstMatchAnywhere ==
    (doc_ret.op = "identify_format" /\ doc.wf) =>
        /\ ~doc_ret.ret.raised
        /\ doc_ret.ret.fmt = FirstMatch(LAMBDA ns : Contains(doc, ns))

\* C1 amended: identify_format returns the first variant, in the order V1,
\* V2, V3, of which the document holds a Mercancia element below its root
\* element, and None when there is none below the root; the root element
\* itself is not examined.
C1_FirstMatchBelowRoot ==
    (doc_ret.op = "identify_format" /\ doc.wf) =>
        /\ ~doc_ret.ret.raised
        /\ doc_ret.ret.fmt = FirstMatch(LAMBDA ns : BelowRoot(doc, ns))

\* a document that mixes namespaces, the CartaPorte30 element coming first
C1_Witness ==
    /\ doc_ret.op = "identify_format"
    /\ doc.wf
    /\ Len(doc.mercs) = 2
    /\ doc.mercs[1].ns = NS30
    /\ doc.mercs[2].ns = NS20
    /\ doc_ret.ret.fmt = Some("format1")

\* C2: the dispatcher raises exactly on a malformed document, returns None
\* exactly on a well-formed document the classifier does not recognise, and
\* otherwise returns what the extractor of the classified variant returns.
C2_DispatcherOutcomes ==
    doc_ret.op = "process_file_based_on_format" =>
        LET ret == doc_ret.ret
            fmt == identify_format(doc).fmt
        IN  /\ ret.raised <=> ~doc.wf
            /\ (~ret.raised /\ IsNone(ret.data)) <=> (doc.wf /\ IsNone(fmt))
            /\ (doc.wf /\ fmt = Some("format1")) => ret = process_xml_format1(doc)
            /\ (doc.wf /\ fmt = Some("format2")) => ret = process_xml_format2(doc)
            /\ (doc.wf /\ fmt = Some("format31")) => ret = process_xml_format31(doc)

\* a V2 document on which the three extractors disagree
C2_Witness ==
    /\ doc_ret.op = "process_file_based_on_format"
    /\ doc.wf
    /\ identify_format(doc).fmt = Some("format2")
    /\ process_xml_format2(doc) # process_xml_format1(doc)
    /\ process_xml_format2(doc) # process_xml_format31(doc)
    /\ doc_ret.ret = process_xml_format2(doc)

\* C3: every record an extractor returns, directly or through the dispatcher,
\* has a billed and a transported quantity that are not None and a comparison
\* that is 'Iguales' or 'Diferentes'.
C3_RecordsPopulated ==
    /\ (doc_ret.op \in Extractors /\ doc.wf) => ~IsNone(doc_ret.ret.data)
    /\ (/\ doc_ret.op \in Extractors \cup {"process_file_based_on_format"}
        /\ ~IsNone(doc_ret.ret.data)) =>
        LET data == Val(doc_ret.ret.data)
        IN  /\ ~IsNone(data.Cantidad_Litros_Facturada)
            /\ ~IsNone(data.Litros_Transportada)
            /\ data.Comparacion \in {"Iguales", "Diferentes"}

\* an extractor on a document with no Concepto and no Mercancia of its own
\* namespace: nothing but the placeholders before the normalisation
C3_Witness ==
    /\ doc_ret.op = "process_xml_format31"
    /\ doc.wf
    /\ doc.conceptos = << >>
    /\ ~BelowRoot(doc, NS31)
    /\ ~IsNone(doc_ret.ret.data)
    /\ Val(doc_ret.ret.data).Comparacion = "Iguales"

\* the transported quantity read from an attribute that may be missing
FormattedFrom(attr) == Format3(parse_float(attr))

\* C4: process_xml_format1 formats the own Cantidad of the first CartaPorte20
\* Mercancia, nested elements or not; process_xml_format2 and
\* process_xml_format31 format the Cantidad of the first nested
\* CantidadTransporta of their namespace when the Mercancia has one, and the
\* own Cantidad of the Mercancia when it has none.
C4_TransportedLocation ==
    (doc_ret.op \in Extractors /\ doc.wf /\ BelowRoot(doc, NSOf(doc_ret.op))) =>
        LET ns == NSOf(doc_ret.op)
            m == FirstOf(doc.mercs, ns)
            trans == Val(doc_ret.ret.data).Litros_Transportada
        IN  IF ns # NS20 /\ HasNested(m, ns)
            THEN /\ trans = Some(FormattedFrom(FirstOf(m.kids, ns).Cantidad))
                 /\ FirstOf(m.kids, ns).Cantidad = Some(Q75)
                        => trans = Some(<<"7", "5", ".", "0", "0", "0">>)
            ELSE /\ trans = Some(FormattedFrom(m.Cantidad))
                 /\ m.Cantidad = Some(Q50)
                        => trans = Some(<<"5", "0", ".", "0", "0", "0">>)

\* own Cantidad 50, nested Cantidad 75: the nested one wins in V2
C4_Witness ==
    /\ doc_ret.op = "process_xml_format2"
    /\ doc.wf
    /\ BelowRoot(doc, NS30)
    /\ FirstOf(doc.mercs, NS30).Cantidad = Some(Q50)
    /\ HasNested(FirstOf(doc.mercs, NS30), NS30)
    /\ Val(doc_ret.ret.data).Litros_Transportada = Some(<<"7", "5", ".", "0", "0", "0">>)

\* the words float() reads as a number that is none
NanInfWords ==
    {<<"n", "a", "n">>, <<"i", "n", "f">>, <<"i", "n", "f", "i", "n", "i", "t", "y">>}

IsNanInfWord(s) ==
    LET t == Lower(Strip(s))
    IN  \/ t \in NanInfWords
        \/ t # << >> /\ Head(t) \in {"+", "-"} /\ Tail(t) \in NanInfWords

\* a text with a character that no decimal number holds
HasLetter(s) ==
    \E i \in DOMAIN s : s[i] \notin Digits \cup {".", "+", "-", " ", "_", "e", "E"}

\* a quantity that is missing (None), empty or non-numeric text, nan and the
\* infinities counted as non-numeric
MissingOrNonNumeric(attr) == IsNone(attr) \/ Val(attr) = << >> \/ HasLetter(Val(attr))

\* the same, nan and the infinities left out: what float() rejects
Missing(attr) ==
    IsNone(attr) \/ Val(attr) = << >> \/ (HasLetter(Val(attr)) /\ ~IsNanInfWord(Val(attr)))

\* the attributes an extractor reads the two quantities from
BilledSource(d) == IF d.conceptos = << >> THEN None ELSE Head(d.conceptos).Cantidad

TransportedSource(d, ns) ==
    IF ~BelowRoot(d, ns) THEN None
    ELSE LET m == FirstOf(d.mercs, ns)
         IN  IF ns # NS20 /\ HasNested(m, ns) THEN FirstOf(m.kids, ns).Cantidad
             ELSE m.Cantidad

\* C9 as stated: parse_float returns 0.0 for None, '' and any non-numeric
\* text, and an extractor returns "0.000" for a billed or transported
\* quantity that is missing, empty or non-numeric.
C9_NonNumericIsZero ==
    (doc_ret.op \in Extractors /\ doc.wf) =>
        /\ \A v \in CantidadesOf(doc) : MissingOrNonNumeric(v) => parse_float(v) = Zero
        /\ ~doc_ret.ret.raised
        /\ MissingOrNonNumeric(BilledSource(doc)) =>
              Val(doc_ret.ret.data).Cantidad_Litros_Facturada = Some(ZeroFmt)
        /\ MissingOrNonNumeric(TransportedSource(doc, NSOf(doc_ret.op))) =>
              Val(doc_ret.ret.data).Litros_Transportada = Some(ZeroFmt)

\* C9 amended: parse_float returns 0.0 for None, for '' and for any text
\* float() rejects, and an extractor returns, without raising, "0.000" for a
\* billed or transported quantity whose element or attribute is missing or
\* whose attribute is empty or a text float() rejects; the texts nan, inf and
\* infinity are numbers to float() and are not coerced.
C9_MissingIsZero ==
    (doc_ret.op \in Extractors /\ doc.wf) =>
        /\ \A v \in CantidadesOf(doc) : Missing(v) => parse_float(v) = Zero
        /\ ~doc_ret.ret.raised
        /\ ~IsNone(doc_ret.ret.data)
        /\ Missing(BilledSource(doc)) =>
              Val(doc_ret.ret.data).Cantidad_Litros_Facturada = Some(ZeroFmt)
        /\ Missing(TransportedSource(doc, NSOf(doc_ret.op))) =>
              Val(doc_ret.ret.data).Litros_Transportada = Some(ZeroFmt)

\* a non-numeric billed quantity and a nested CantidadTransporta without a
\* Cantidad, in V2
C9_Witness ==
    /\ doc_ret.op = "process_xml_format2"
    /\ doc.wf
    /\ BilledSource(doc) = Some(<<"x">>)
    /\ BelowRoot(doc, NS30)
    /\ HasNested(FirstOf(doc.mercs, NS30), NS30)
    /\ IsNone(TransportedSource(doc, NS30))
    /\ Val(doc_ret.ret.data).Cantidad_Litros_Facturada = Some(ZeroFmt)
    /\ Val(doc_ret.ret.data).Litros_Transportada = Some(ZeroFmt)

\* the fuel table as the specification gives it
FuelOf(code) ==
    CASE code = <<"1", "5", "1", "0", "1", "5", "1", "4">> -> Some("magna")
      [] code = <<"1", "5", "1", "0", "1", "5", "1", "5">> -> Some("premium")
      [] code = <<"1", "5", "1", "0", "1", "5", "0", "5">> -> Some("diesel")
      [] OTHER -> None

\* C10: map_clave_to_combustible returns the label of the table for the three
\* codes and None for any other code, '' included; in the record of an
\* extractor that found its Mercancia, 'Clave SAT' is the code read ('' when
\* BienesTransp is missing) and 'Combustible' is the label of that code, None
\* when the code is unknown.
C10_FuelLookup ==
    (doc_ret.op \in Extractors /\ doc.wf) =>
        /\ \A c \in ClavesOf(doc) \cup Claves : map_clave_to_combustible(c) = FuelOf(c)
        /\ BelowRoot(doc, NSOf(doc_ret.op)) =>
            LET code ==
                    GetOrEmpty(FirstOf(doc.mercs, NSOf(doc_ret.op)).BienesTransp, << >>)
                data == Val(doc_ret.ret.data)
            IN  /\ data.Clave_SAT = Some(code)
                /\ data.Combustible = FuelOf(code)
                /\ code \notin {Magna, Premium, Diesel} => IsNone(data.Combustible)

\* a record whose code is not in the table
C10_Witness ==
    /\ doc_ret.op = "process_xml_format1"
    /\ doc.wf
    /\ BelowRoot(doc, NS20)
    /\ FirstOf(doc.mercs, NS20).BienesTransp = Some(Unknown)
    /\ Val(doc_ret.ret.data).Clave_SAT = Some(Unknown)
    /\ IsNone(Val(doc_ret.ret.data).Combustible)

\* a float as a count of 10^-10 units, <<H, L>> standing for H * 10^5 + L
\* with 0 <= L < 10^5
UnitsOf(v) ==
    IF ~v.neg THEN <<v.hi, v.lo>>
    ELSE IF v.lo = 0 THEN <<0 - v.hi, 0>>
    ELSE <<0 - v.hi - 1, Limb - v.lo>>

AddUnits(u, k) ==
    IF u[2] + k < 0 THEN <<u[1] - 1, u[2] + k + Limb>>
    ELSE IF u[2] + k >= Limb THEN <<u[1] + 1, u[2] + k - Limb>>
    ELSE <<u[1], u[2] + k>>

\* |a - b| < 1e-9: a is b plus fewer than ten units
WithinTolerance(a, b) ==
    /\ a.kind = "fin"
    /\ b.kind = "fin"
    /\ \E k \in -9..9 : AddUnits(UnitsOf(b), k) = UnitsOf(a)

\* C8: format_and_compare_liters answers 'Iguales' exactly when the parsed
\* values differ by less than 1e-9: 10.0001 and 10.0002 have the same
\* formatted string and are 'Diferentes', 10 and 10.000 are 'Iguales'.
C8_ComparesValues ==
    num_ret.op = "format_and_compare_liters" =>
        LET f == parse_float(facturada_str)
            t == parse_float(transportada_str)
            r == num_ret.fmt
        IN  /\ r.comp \in {"Iguales", "Diferentes"}
            /\ r.comp = "Iguales" <=> WithinTolerance(f, t)
            /\ (/\ facturada_str = Some(<<"1", "0", ".", "0", "0", "0", "1">>)
                /\ transportada_str = Some(<<"1", "0", ".", "0", "0", "0", "2">>))
                  => r.fac = r.trans /\ r.comp = "Diferentes"
            /\ (/\ facturada_str = Some(<<"1", "0">>)
                /\ transportada_str = Some(<<"1", "0", ".", "0", "0", "0">>))
                  => r.comp = "Iguales"
            /\ (/\ facturada_str = Some(<<"1", "0">>)
                /\ transportada_str = Some(<<"1", "0", ".", "0", "1">>))
                  => r.comp = "Diferentes"

\* equal formatted strings, different values
C8_Witness ==
    /\ num_ret.op = "format_and_compare_liters"
    /\ facturada_str = Some(<<"1", "0", ".", "0", "0", "0", "1">>)
    /\ transportada_str = Some(<<"1", "0", ".", "0", "0", "0", "2">>)
    /\ num_ret.fmt.fac = num_ret.fmt.trans
    /\ num_ret.fmt.comp = "Diferentes"

-----------------------------------------------------------------------------
(* Claims about process_uploaded_files, under SpecBatch *)

\* the document is well-formed and has a Mercancia of one of the three
\* namespaces below its root
Recognized(d) == d.wf /\ \E ns \in {NS20, NS30, NS31} : BelowRoot(d, ns)

DocOf(path) == FileAt(temp_dir, path).doc

\* the paths of the recognized documents among the first n of all_xml_files
RecognizedAmong(n) ==
    SelectSeq(SubSeq(all_xml_files, 1, n), LAMBDA q : Recognized(DocOf(q)))

\* C5: in a batch a failure on one document never aborts the rest.  While the
\* loop runs and after it, the documents handed to the dispatcher are exactly
\* the first idx - 1 paths of the list, each once and in order, whatever the
\* outcome of the ones before; the records collected are one for each of
\* these that is well-formed and recognized, in order, and none for a
\* document that is unrecognized or whose processing raised; and the call
\* returns only when every path of the list has been handed over.
C5_NoAbort ==
    pc \in {"loop", "done"} =>
        /\ Len(log) = idx - 1
        /\ idx <= Len(all_xml_files) + 1
        /\ \A i \in DOMAIN log :
              /\ log[i].path = all_xml_files[i]
              /\ log[i].outcome =
                     IF ~DocOf(all_xml_files[i]).wf THEN "error"
                     ELSE IF Recognized(DocOf(all_xml_files[i])) THEN "record"
                     ELSE "skipped"
        /\ Len(all_data) = Len(RecognizedAmong(idx - 1))
        /\ \A i \in DOMAIN all_data :
              all_data[i].XML_File = RecognizedAmong(idx - 1)[i].name
        /\ pc = "done" => idx = Len(all_xml_files) + 1

\* the call has returned, and a document whose processing raised, and an
\* unrecognized one, came before a document that gave a record
C5_Witness ==
    /\ pc = "done"
    /\ \E i, j, k \in DOMAIN log :
          /\ i < k /\ j < k
          /\ log[i].outcome = "error"
          /\ log[j].outcome = "skipped"
          /\ log[k].outcome = "record"
    /\ Len(all_data) = 1

\* the row of the output is the record without FechaEmision, the two
\* quantities read as numbers
SameRecord(row, rec) ==
    /\ DOMAIN row = DOMAIN rec \ {"FechaEmision"}
    /\ \A f \in DOMAIN row \ {"Cantidad_Litros_Facturada", "Litros_Transportada"} :
          row[f] = rec[f]
    /\ row.Cantidad_Litros_Facturada = parse_float(rec.Cantidad_Litros_Facturada)
    /\ row.Litros_Transportada = parse_float(rec.Litros_Transportada)

StemOf(name) == SubSeq(name, 1, Len(name) - Len(DotXml))
NamedXml(rec) == EndsWith(rec.XML_File, DotXml)
HasNonDot(x) == \E i \in DOMAIN x : x[i] # "."

\* what C7 says identify_pdf returns for the document X.xml
ExactStemPdf(x, keys) == IF (x \o DotPdf) \in keys THEN x \o DotPdf ELSE NoEncontrado

\* C7 as stated: for a document named X.xml, whatever X, and any PDF
\* collection, identify_pdf returns X.pdf if and only if the key X.pdf is in
\* the collection, and 'No encontrado' otherwise.
C7_ExactStemAnyName ==
    \A i \in DOMAIN all_data :
        NamedXml(all_data[i]) =>
            all_data[i].PDF_Asociado =
                ExactStemPdf(StemOf(all_data[i].XML_File), Keys(pdf_files))

\* C7, amended: for a document named X.xml where X has a character that is
\* not a dot, and any PDF collection, identify_pdf returns X.pdf if and only
\* if the key X.pdf is in the collection, and 'No encontrado' otherwise; a PDF
\* collected under a name that differs in case, such as X.PDF, is never
\* associated.
C7_ExactStem ==
    \A i \in DOMAIN all_data :
        (NamedXml(all_data[i]) /\ HasNonDot(StemOf(all_data[i].XML_File))) =>
            /\ all_data[i].PDF_Asociado =
                   ExactStemPdf(StemOf(all_data[i].XML_File), Keys(pdf_files))
            /\ all_data[i].PDF_Asociado # StemOf(all_data[i].XML_File) \o <<".", "P", "D", "F">>

\* X.xml gave a record, the collection holds X.PDF and not X.pdf, and the
\* record says 'No encontrado'
C7_Witness ==
    \E i \in DOMAIN all_data :
        /\ all_data[i].XML_File = <<"X", ".", "x", "m", "l">>
        /\ <<"X", ".", "P", "D", "F">> \in Keys(pdf_files)
        /\ <<"X", ".", "p", "d", "f">> \notin Keys(pdf_files)
        /\ all_data[i].PDF_Asociado = NoEncontrado

-----------------------------------------------------------------------------
(* Claims about extract_common_data, under SpecDoc *)

\* the text is a date of the calendar
LeapYear(y) == (y % 4 = 0 /\ y % 100 # 0) \/ y % 400 = 0
MonthLengths(y) ==
    <<31, IF LeapYear(y) THEN 29 ELSE 28, 31, 30, 31, 30, 31, 31, 30, 31, 30, 31>>
ValidFecha(attr) ==
    /\ ~IsNone(attr)
    /\ Val(attr).form = "date"
    /\ Val(attr).y >= 1 /\ Val(attr).y <= 9999
    /\ Val(attr).m >= 1 /\ Val(attr).m <= 12
    /\ Val(attr).d >= 1 /\ Val(attr).d <= MonthLengths(Val(attr).y)[Val(attr).m]

MonthNames ==
    <<<<"1">>, <<"2">>, <<"3">>, <<"4">>, <<"5">>, <<"6">>, <<"7">>, <<"8">>, <<"9">>,
      <<"1", "0">>, <<"1", "1">>, <<"1", "2">>>>

\* C11: extract_common_data never raises and keeps Periodo consistent with
\* FechaEmision.  When the Fecha attribute is missing or is no valid date,
\* FechaEmision is None and Periodo is ''; when it is valid, FechaEmision is
\* that date and Periodo is its month number as a string.  Serie and Folio are
\* '' when their attributes are missing and the attribute's value otherwise;
\* Clave SAT, the two quantities and Combustible start as None and Comparacion
\* as ''.
C11_CommonFields ==
    doc_ret.op = "extract_common_data" =>
        /\ ~doc_ret.ret.raised
        /\ ~IsNone(doc_ret.ret.data)
        /\ LET data == Val(doc_ret.ret.data)
               root == doc.root
           IN  /\ ~ValidFecha(root.Fecha) =>
                      IsNone(data.FechaEmision) /\ data.Periodo = << >>
               /\ ValidFecha(root.Fecha) =>
                      /\ data.FechaEmision =
                             Some([y |-> Val(root.Fecha).y, m |-> Val(root.Fecha).m,
                                   d |-> Val(root.Fecha).d])
                      /\ data.Periodo = MonthNames[Val(root.Fecha).m]
               /\ IsNone(data.FechaEmision) <=> data.Periodo = << >>
               /\ data.Serie = IF IsNone(root.Serie) THEN "" ELSE Val(root.Serie)
               /\ data.Folio = IF IsNone(root.Folio) THEN "" ELSE Val(root.Folio)
               /\ IsNone(data.Clave_SAT)
               /\ IsNone(data.Cantidad_Litros_Facturada)
               /\ IsNone(data.Litros_Transportada)
               /\ IsNone(data.Combustible)
               /\ data.Comparacion = ""

\* a Fecha in the form of a date that names no day (29 February 2023), with
\* Serie and Folio missing: no date, no period
C11_Witness ==
    /\ doc_ret.op = "extract_common_data"
    /\ doc.root.Fecha = Some(Fecha(2023, 2, 29))
    /\ IsNone(doc.root.Serie)
    /\ IsNone(doc.root.Folio)
    /\ IsNone(Val(doc_ret.ret.data).FechaEmision)
    /\ Val(doc_ret.ret.data).Periodo = << >>
    /\ Val(doc_ret.ret.data).Serie = ""

-----------------------------------------------------------------------------
(* Claims about the state of process_uploaded_files across calls and across
   the loop, under SpecBatch *)

\* the files this call wrote: the uploaded files and the members of the
\* uploaded archives, with what they hold
WrittenNow ==
    {[path |-> Path(<< >>, uploaded_files[i].name), doc |-> uploaded_files[i].doc] :
        i \in DOMAIN uploaded_files}
    \cup UNION {{uploaded_files[i].members[k] : k \in DOMAIN uploaded_files[i].members} :
                  i \in DOMAIN uploaded_files}
PathsNow == {w.path : w \in WrittenNow}
IsPdfName(name) == EndsWith(Lower(name), DotPdf)
IsXmlName(name) == EndsWith(Lower(name), DotXml)

\* C12: state is transient per batch.  In every call of a sequence of calls,
\* once the files are saved, ./temp_files holds the files written by this call
\* and no other, the PDF mapping has the PDF names of this call and no other,
\* the list of documents is the XML files of this call, the record list is
\* empty when the loop starts, and every record comes from a document of this
\* call: nothing an earlier call left is visible.
C12_TransientState ==
    pc \in {"loop", "done"} =>
        /\ {f.path : f \in temp_dir} = PathsNow
        /\ temp_dir \subseteq WrittenNow
        /\ Keys(pdf_files) = {q.name : q \in {r \in PathsNow : IsPdfName(r.name)}}
        /\ \A e \in pdf_files : e.path \in PathsNow /\ e.path.name = e.name
        /\ {all_xml_files[i] : i \in DOMAIN all_xml_files} =
               {r \in PathsNow : IsXmlName(r.name)}
        /\ idx = 1 => all_data = << >>
        /\ \A i \in DOMAIN all_data :
              /\ \E r \in PathsNow : r.name = all_data[i].XML_File
              /\ all_data[i].PDF_Asociado \in Keys(pdf_files) \cup {NoEncontrado}
        /\ \A f \in left_dir :
              f.path \notin PathsNow =>
                  /\ f.path \notin {g.path : g \in temp_dir}
                  /\ \A e \in pdf_files : e.path # f.path
                  /\ \A i \in DOMAIN all_xml_files : all_xml_files[i] # f.path

\* the second call found X.pdf left by the first, was given X.xml alone, and
\* returned its record without a PDF and an empty mapping
C12_Witness ==
    /\ pc = "done"
    /\ calls = 2
    /\ \E f \in left_dir : f.path = Path(<< >>, <<"X", ".", "p", "d", "f">>)
    /\ Len(uploaded_files) = 1
    /\ uploaded_files[1].name = <<"X", ".", "x", "m", "l">>
    /\ pdf_files = {}
    /\ Len(df_result) = 1
    /\ df_result[1].PDF_Asociado = NoEncontrado

\* C13: the PDF mapping is complete before the first document is processed
\* and the loop leaves it as it is.  From the start of the loop the mapping
\* has every PDF file under ./temp_files, each turn of the loop, whether the
\* document gives a record, is skipped or raises, changes no entry, and the
\* PDF of every record is the one identify_pdf gives for its name in that
\* mapping, whatever the other documents of the batch.
C13_MappingFrame ==
    /\ [](pc \in {"loop", "done"} =>
            /\ Keys(pdf_files) = {f.path.name : f \in {g \in temp_dir : IsPdfName(g.path.name)}}
            /\ \A i \in DOMAIN all_data :
                  all_data[i].PDF_Asociado =
                      identify_pdf(all_data[i].XML_File, pdf_files))
    /\ [][pc = "loop" => pdf_files' = pdf_files]_vars

\* a document that raised and one that was skipped came before a document
\* whose PDF, extracted from an archive, is in its record
C13_Witness ==
    /\ pc = "done"
    /\ \E i, j \in DOMAIN log : log[i].outcome = "error" /\ log[j].outcome = "skipped"
    /\ [name |-> <<"X", ".", "p", "d", "f">>,
        path |-> Path(Sub, <<"X", ".", "p", "d", "f">>)] \in pdf_files
    /\ Len(all_data) = 1
    /\ all_data[1].PDF_Asociado = <<"X", ".", "p", "d", "f">>

-----------------------------------------------------------------------------
(* Classifier and extractor, under SpecDoc *)

\* the namespaces of which the document has a Mercancia below the root, and
\* the first of them in the order of the classifier
MatchedNamespaces(d) == {ns \in {NS20, NS30, NS31} : BelowRoot(d, ns)}
ClassifiedNamespace(d) ==
    IF NS20 \in MatchedNamespaces(d) THEN NS20
    ELSE IF NS30 \in MatchedNamespaces(d) THEN NS30
    ELSE NS31

\* C14: classifier and extractor agree on the Mercancia.  Whenever the
\* dispatcher returns a record, the document has a Mercancia of the classified
\* namespace below the root, the record's Clave SAT is not None but the
\* BienesTransp of the first such Mercancia ('' when it has none), the fuel
\* is the one of that code, and the transported quantity is read from that
\* Mercancia; this also for a document with Mercancia elements of several
\* namespaces.
C14_ClassifierExtractorAgree ==
    (doc_ret.op = "process_file_based_on_format" /\ ~IsNone(doc_ret.ret.data)) =>
        /\ MatchedNamespaces(doc) # {}
        /\ LET ns == ClassifiedNamespace(doc)
               m == FirstOf(doc.mercs, ns)
               data == Val(doc_ret.ret.data)
           IN  /\ ~IsNone(data.Clave_SAT)
               /\ data.Clave_SAT =
                      Some(IF IsNone(m.BienesTransp) THEN << >> ELSE Val(m.BienesTransp))
               /\ data.Combustible = FuelOf(Val(data.Clave_SAT))
               /\ data.Litros_Transportada =
                      Some(FormattedFrom(TransportedSource(doc, ns)))

\* a CartaPorte30 Mercancia comes before a CartaPorte20 one that has no
\* BienesTransp: the record is the V1 one, with Clave SAT ''
C14_Witness ==
    /\ doc_ret.op = "process_file_based_on_format"
    /\ Len(doc.mercs) = 2
    /\ doc.mercs[1].ns = NS30
    /\ doc.mercs[2].ns = NS20
    /\ IsNone(doc.mercs[2].BienesTransp)
    /\ ~IsNone(doc_ret.ret.data)
    /\ Val(doc_ret.ret.data).Clave_SAT = Some(<< >>)
    /\ IsNone(Val(doc_ret.ret.data).Combustible)

====
